---- MODULE Spec2Model ----
(***************************************************************************)
(* Route selection of a payment-channel node (raiden/routing.py):          *)
(* get_best_routes, get_best_routes_pfs and resolve_routes, over a         *)
(* read-only chain state with one token network.                           *)
(*                                                                         *)
(* Optional values are sequences of length at most one: None is <<>> and   *)
(* Some(x) is <<x>>.  A call is one atomic action; its return value (or    *)
(* the exception that escaped it) is kept until the caller takes it.       *)
(***************************************************************************)
EXTENDS Integers, Sequences, FiniteSets, TLC

\* ---------------------------------------------------------------- bounds
\* most channels in the token network
MaxChannels == 2
\* most candidates in one service response or one peer metadata list
MaxCands == 2

\* ---------------------------------------------------------------- values
None == <<>>
Some(x) == <<x>>

\* the node itself (the payer), another node and the payee
our_address == "N"
Addresses == {"N", "X", "T"}
Partners == Addresses \ {our_address}
Payees == {"T"}
PreviousAddresses == {None, Some("X")}

\* transfer amounts, and the balances a channel can have left to distribute
TransferAmounts == {1}
Balances == {0, 1}

\* an address as the service spells it: the address in one of two textual forms
Hex(a) == <<a, "lower">>
HexChecksum(a) == <<a, "checksum">>

Fees == {0, 5}
FeedbackTokens == {"uuid"}

\* routing only tells opened from the rest
Statuses == {"opened", "closing", "closed", "settled"}
STATE_OPENED == "opened"

\* ChannelState: the fields routing reads.  A channel that is not opened has
\* nothing distributable.
ChannelStates(id) ==
    { c \in [identifier : {id}, partner_address : Partners,
             status : Statuses, distributable : Balances] :
        c.status # STATE_OPENED => c.distributable = 0 }

\* the opening transaction of channel id finished in block id
finished_block_number(channel_state) == channel_state.identifier

\* TokenNetworkState.channelidentifiers_to_channels, keyed 1..n
TokenNetworks ==
    UNION { { tn \in [1..n -> UNION { ChannelStates(i) : i \in 1..n }] :
                \A i \in 1..n : tn[i].identifier = i } : n \in 0..MaxChannels }

RouteState(route, estimated_fee) == [route |-> route, estimated_fee |-> estimated_fee]

\* the result triple of a call, or the exception that escaped it
Return(msg, routes, token) ==
    [exception |-> None, error_msg |-> msg, routes |-> routes, feedback_token |-> token]
Raise(exc) ==
    [exception |-> Some(exc), error_msg |-> None, routes |-> <<>>, feedback_token |-> None]

\* ------------------------------------------------- external collaborators
\* eth_utils.to_canonical_address: decodes either textual form to the address
to_canonical_address(node) == node[1]

\* channel.get_status
get_status(channel_state) == channel_state.status

\* channel.is_channel_usable_for_new_transfer(channel_state, amount, excluded)
is_channel_usable_for_new_transfer(channel_state, amount, excluded) ==
    IF excluded # None /\ excluded[1] = channel_state.identifier
    THEN "IS_EXCLUDED_CHANNEL"
    ELSE IF get_status(channel_state) # STATE_OPENED
    THEN "NOT_OPENED"
    ELSE IF channel_state.distributable < amount
    THEN "INSUFFICIENT_OWN_CAPACITY"
    ELSE "USABLE"

\* TokenNetworkState.partneraddresses_to_channelidentifiers[partner]:
\* the identifiers of the channels with partner, in opening order
partneraddresses_to_channelidentifiers(token_network, partner) ==
    SelectSeq([i \in 1..Len(token_network) |-> i],
              LAMBDA i : token_network[i].partner_address = partner)

\* views.get_channelstate_by_token_network_and_partner: the channel with
\* partner (the latest one when there are several), or None
get_channelstate_by_token_network_and_partner(token_network, partner_address) ==
    LET ids == partneraddresses_to_channelidentifiers(token_network, partner_address)
    IN IF Len(ids) = 0 THEN None ELSE Some(token_network[ids[Len(ids)]])

\* what query_paths can do: raise ServiceRequestFailed(*args), or return the
\* candidates and a feedback token
FailureArgs == { <<>>, <<"">>, <<"timeout">>, <<"timeout", "context">> }

\* the paths a response may carry: one too short to have a next hop, the
\* payee as next hop, and X as next hop in either textual form
ServicePaths ==
    { <<Hex("N")>>,
      <<Hex("N"), Hex("T")>>,
      <<Hex("N"), Hex("X"), Hex("T")>>,
      <<Hex("N"), HexChecksum("X"), HexChecksum("T")>> }

PathObjects == [path : ServicePaths, estimated_fee : Fees]

PFSResponses ==
    { [failed |-> TRUE, args |-> a, pfs_routes |-> <<>>, feedback_token |-> None] :
        a \in FailureArgs }
    \cup
    { [failed |-> FALSE, args |-> <<>>, pfs_routes |-> r, feedback_token |-> Some(t)] :
        r \in UNION { [1..n -> PathObjects] : n \in 0..MaxCands }, t \in FeedbackTokens }

\* peer-supplied RouteMetadata.route: canonical addresses
MetadataRoutes == { <<"N">>, <<"N", "T">>, <<"N", "X", "T">> }

RouteMetadataLists == UNION { [1..n -> [route : MetadataRoutes]] : n \in 0..MaxCands }

\* ------------------------------------------------------ get_best_routes_pfs
\* the except clause: the message is args[0], which is missing when the
\* exception carries no arguments
service_request_failed(args) ==
    IF Len(args) = 0
    THEN Raise("IndexError")
    ELSE LET log_message == IF args[1] # "" THEN Some("PFS: " \o args[1]) ELSE None
         IN Return(log_message, <<>>, None)

canonical_path_of(path) == [i \in 1..Len(path) |-> to_canonical_address(path[i])]

\* the loop body without the "don't route back" test
pfs_path_verdict_backtracking(token_network, previous_address, path_object) ==
    LET canonical_path == canonical_path_of(path_object.path)
    IN IF Len(canonical_path) < 2
       THEN "raise"
       ELSE LET channel_state ==
                    get_channelstate_by_token_network_and_partner(
                        token_network, canonical_path[2])
            IN IF channel_state = None
               THEN "skip"
               ELSE IF get_status(channel_state[1]) # STATE_OPENED
               THEN "skip"
               ELSE "append"

\* the loop body without the channel status test
pfs_path_verdict_any_status(token_network, previous_address, path_object) ==
    LET canonical_path == canonical_path_of(path_object.path)
    IN IF Len(canonical_path) < 2
       THEN "raise"
       ELSE IF Some(canonical_path[2]) = previous_address
       THEN "skip"
       ELSE IF get_channelstate_by_token_network_and_partner(
                   token_network, canonical_path[2]) = None
       THEN "skip"
       ELSE "append"

\* one pass of the loop body for path_object: "raise", "skip" or "append"
pfs_path_verdict(token_network, previous_address, path_object) ==
    LET canonical_path == canonical_path_of(path_object.path)
    IN IF Len(canonical_path) < 2
       THEN "raise"
       ELSE LET partner_address == canonical_path[2]
                channel_state ==
                    get_channelstate_by_token_network_and_partner(
                        token_network, partner_address)
            IN IF Some(partner_address) = previous_address
               THEN "skip"
               ELSE IF channel_state = None
               THEN "skip"
               ELSE IF get_status(channel_state[1]) # STATE_OPENED
               THEN "skip"
               ELSE "append"

\* a RouteState that drops the candidate's fee, as resolve_routes does
pfs_route_state_zero_fee(path_object) ==
    RouteState(canonical_path_of(path_object.path), 0)

pfs_route_state(path_object) ==
    RouteState(canonical_path_of(path_object.path), path_object.estimated_fee)

\* the loop over pfs_routes from index k on, with the paths accepted so far
RECURSIVE pfs_paths_loop(_, _, _, _, _, _)
pfs_paths_loop(token_network, previous_address, pfs_routes, feedback_token, k, paths) ==
    IF k > Len(pfs_routes)
    THEN Return(None, paths, feedback_token)
    ELSE LET verdict == pfs_path_verdict(token_network, previous_address, pfs_routes[k])
         IN IF verdict = "raise"
            THEN Raise("IndexError")
            ELSE pfs_paths_loop(token_network, previous_address, pfs_routes,
                                feedback_token, k + 1,
                                IF verdict = "append"
                                THEN Append(paths, pfs_route_state(pfs_routes[k]))
                                ELSE paths)

get_best_routes_pfs(token_network, previous_address, response) ==
    IF response.failed
    THEN service_request_failed(response.args)
    ELSE pfs_paths_loop(token_network, previous_address, response.pfs_routes,
                        response.feedback_token, 1, <<>>)

\* ---------------------------------------------------------- resolve_routes
resolve_verdict(token_network, route_metadata) ==
    IF Len(route_metadata.route) < 2
    THEN "skip"
    ELSE IF get_channelstate_by_token_network_and_partner(
                token_network, route_metadata.route[2]) # None
    THEN "append"
    ELSE "skip"

RECURSIVE resolve_loop(_, _, _, _)
resolve_loop(token_network, routes, k, resolvable) ==
    IF k > Len(routes)
    THEN resolvable
    ELSE resolve_loop(token_network, routes, k + 1,
                      IF resolve_verdict(token_network, routes[k]) = "append"
                      THEN Append(resolvable, RouteState(routes[k].route, 0))
                      ELSE resolvable)

resolve_routes(routes, token_network) ==
    Return(None, resolve_loop(token_network, routes, 1, <<>>), None)

\* --------------------------------------------------------- get_best_routes
\* a direct-channel loop that gives up after the first channel to the payee
direct_channel_loop_first_only(token_network, channel_ids, k, amount) ==
    /\ k <= Len(channel_ids)
    /\ is_channel_usable_for_new_transfer(
            token_network[channel_ids[k]], amount, None) = "USABLE"

\* the direct-channel loop from index k on: TRUE when it returns the route
RECURSIVE direct_channel_loop(_, _, _, _)
direct_channel_loop(token_network, channel_ids, k, amount) ==
    IF k > Len(channel_ids)
    THEN FALSE
    ELSE IF is_channel_usable_for_new_transfer(
                token_network[channel_ids[k]], amount, None) = "USABLE"
    THEN TRUE
    ELSE direct_channel_loop(token_network, channel_ids, k + 1, amount)

has_direct_route(token_network, to_address, amount) ==
    direct_channel_loop(token_network,
        partneraddresses_to_channelidentifiers(token_network, to_address), 1, amount)

Max(a, b) == IF a >= b THEN a ELSE b

RECURSIVE latest_channel_opened_at(_, _)
latest_channel_opened_at(token_network, k) ==
    IF k = 0
    THEN 0
    ELSE Max(latest_channel_opened_at(token_network, k - 1),
             finished_block_number(token_network[k]))

\* Python truth of an Optional[str]
Truthy(msg) == msg # None /\ msg[1] # ""

\* get_best_routes handing on whatever get_best_routes_pfs returned
after_pfs_pass_through(pfs) ==
    IF pfs.exception # None
    THEN pfs
    ELSE IF ~Truthy(pfs.error_msg)
    THEN Return(pfs.error_msg, pfs.routes, pfs.feedback_token)
    ELSE Return(pfs.error_msg, <<>>, None)

\* what get_best_routes makes of the return of get_best_routes_pfs
after_pfs(pfs) ==
    IF pfs.exception # None
    THEN pfs
    ELSE IF ~Truthy(pfs.error_msg)
    THEN IF Len(pfs.routes) = 0
         THEN Return(Some("PFS could not find any routes"), <<>>, None)
         ELSE Return(pfs.error_msg, pfs.routes, pfs.feedback_token)
    ELSE Return(pfs.error_msg, <<>>, None)

\* the service taken as usable with the configuration alone
pfs_usable_config_only(pfs_config, one_to_n_address) == pfs_config # None

pfs_usable(pfs_config, one_to_n_address) == pfs_config # None /\ one_to_n_address # None

direct_result(from_address, to_address) ==
    Return(None, <<RouteState(<<from_address, to_address>>, 0)>>, None)

no_pfs_result == Return(Some("Pathfinding Service could not be used."), <<>>, None)

\* ------------------------------------------------------------------ state
VARIABLES
    token_network,  \* channelidentifiers_to_channels of the token network
    pc,             \* "idle", or "returned" while a call's outcome is held
    call,           \* the operation called and its arguments
    query,          \* the query_paths call it made, or None
    pfs_result,     \* what get_best_routes_pfs returned or raised, or None
    result          \* what the called operation returned or raised

vars == <<token_network, pc, call, query, pfs_result, result>>

NoCall ==
    [op |-> "none", from_address |-> None, to_address |-> None, amount |-> 0,
     previous_address |-> None, pfs_config |-> None, one_to_n_address |-> None,
     routes |-> <<>>]

Init ==
    /\ token_network \in TokenNetworks
    /\ pc = "idle"
    /\ call = NoCall
    /\ query = None
    /\ pfs_result = None
    /\ result = Return(None, <<>>, None)

Query(response) ==
    Some([pfs_wait_for_block |-> latest_channel_opened_at(token_network, Len(token_network)),
          response |-> response])

GetBestRoutes ==
    /\ pc = "idle"
    /\ \E to_address \in Payees, amount \in TransferAmounts,
          previous_address \in PreviousAddresses,
          pfs_config \in {None, Some("pfs_config")},
          one_to_n_address \in {None, Some("one_to_n")} :
        /\ call' = [op |-> "get_best_routes", from_address |-> Some(our_address),
                    to_address |-> Some(to_address), amount |-> amount,
                    previous_address |-> previous_address, pfs_config |-> pfs_config,
                    one_to_n_address |-> one_to_n_address, routes |-> <<>>]
        /\ IF has_direct_route(token_network, to_address, amount)
           THEN /\ query' = None
                /\ pfs_result' = None
                /\ result' = direct_result(our_address, to_address)
           ELSE IF pfs_usable(pfs_config, one_to_n_address)
           THEN \E response \in PFSResponses :
                  LET pfs == get_best_routes_pfs(token_network, previous_address, response)
                  IN /\ query' = Query(response)
                     /\ pfs_result' = Some(pfs)
                     /\ result' = after_pfs(pfs)
           ELSE /\ query' = None
                /\ pfs_result' = None
                /\ result' = no_pfs_result
    /\ pc' = "returned"
    /\ UNCHANGED token_network

GetBestRoutesPfs ==
    /\ pc = "idle"
    /\ \E to_address \in Payees, amount \in TransferAmounts,
          previous_address \in PreviousAddresses,
          response \in PFSResponses :
        LET pfs == get_best_routes_pfs(token_network, previous_address, response)
        IN /\ call' = [op |-> "get_best_routes_pfs", from_address |-> Some(our_address),
                       to_address |-> Some(to_address), amount |-> amount,
                       previous_address |-> previous_address,
                       pfs_config |-> Some("pfs_config"),
                       one_to_n_address |-> Some("one_to_n"), routes |-> <<>>]
           /\ query' = Query(response)
           /\ pfs_result' = Some(pfs)
           /\ result' = pfs
    /\ pc' = "returned"
    /\ UNCHANGED token_network

ResolveRoutes ==
    /\ pc = "idle"
    /\ \E routes \in RouteMetadataLists :
        /\ call' = [NoCall EXCEPT !.op = "resolve_routes", !.routes = routes]
        /\ result' = resolve_routes(routes, token_network)
    /\ query' = None
    /\ pfs_result' = None
    /\ pc' = "returned"
    /\ UNCHANGED token_network

\* the caller takes the outcome; the chain state was only read
TakeResult ==
    /\ pc = "returned"
    /\ pc' = "idle"
    /\ call' = NoCall
    /\ query' = None
    /\ pfs_result' = None
    /\ result' = Return(None, <<>>, None)
    /\ UNCHANGED token_network

Next == GetBestRoutes \/ GetBestRoutesPfs \/ ResolveRoutes \/ TakeResult

Spec == Init /\ [][Next]_vars

\* ------------------------------------------------------------ properties
Range(seq) == { seq[i] : i \in 1..Len(seq) }

\* s is an order-preserving subsequence of t
RECURSIVE IsSubsequence(_, _)
IsSubsequence(s, t) ==
    IF Len(s) = 0
    THEN TRUE
    ELSE IF Len(t) = 0
    THEN FALSE
    ELSE IF Head(s) = Head(t)
    THEN IsSubsequence(Tail(s), Tail(t)) \/ IsSubsequence(s, Tail(t))
    ELSE IsSubsequence(s, Tail(t))

ReturnedFrom(op) == pc = "returned" /\ call.op = op

\* get_best_routes_pfs ran (on its own or inside get_best_routes)
PfsCalled == pc = "returned" /\ pfs_result # None

\* ... the query succeeded and the validation loop returned
PfsValidated ==
    PfsCalled /\ ~query[1].response.failed /\ pfs_result[1].exception = None

Candidates == query[1].response.pfs_routes

NextHop(path_object) == to_canonical_address(path_object.path[2])

\* this node's channel with partner exists and is opened
HopOpened(partner) ==
    LET channel_state ==
            get_channelstate_by_token_network_and_partner(token_network, partner)
    IN channel_state # None /\ get_status(channel_state[1]) = STATE_OPENED

UsableChannelTo(partner, amount) ==
    \E i \in 1..Len(token_network) :
        /\ token_network[i].partner_address = partner
        /\ is_channel_usable_for_new_transfer(token_network[i], amount, None) = "USABLE"

CandidateRouteState(path_object) ==
    RouteState([i \in 1..Len(path_object.path) |-> path_object.path[i][1]],
               path_object.estimated_fee)

\* C1: whenever some channel to the payee is USABLE for the amount,
\* get_best_routes returns (None, [RouteState([from, to], 0)], None) and asks
\* the service nothing, whatever pfs_config, one_to_n_address and
\* previous_address are and whichever channels to the payee come first.
C1_DirectRouteWins ==
    (ReturnedFrom("get_best_routes")
        /\ UsableChannelTo(call.to_address[1], call.amount))
    => /\ result = Return(None,
                        <<[route |-> <<call.from_address[1], call.to_address[1]>>,
                           estimated_fee |-> 0]>>,
                        None)
       /\ query = None

\* the direct route is returned although the first channel to the payee is
\* not usable, a service is configured and a previous hop is given
C1_Witness ==
    /\ ReturnedFrom("get_best_routes")
    /\ Len(token_network) = 2
    /\ token_network[1].partner_address = call.to_address[1]
    /\ token_network[2].partner_address = call.to_address[1]
    /\ is_channel_usable_for_new_transfer(token_network[1], call.amount, None) # "USABLE"
    /\ is_channel_usable_for_new_transfer(token_network[2], call.amount, None) = "USABLE"
    /\ call.pfs_config # None
    /\ call.one_to_n_address # None
    /\ call.previous_address # None
    /\ Len(result.routes) = 1

\* C2: when the path-finding query fails with a message argument and no direct
\* channel is usable, get_best_routes returns ("PFS: " + message, [], None),
\* and that message is neither the zero-routes nor the service-unusable one.
C2_FailureMessageKept ==
    (ReturnedFrom("get_best_routes") /\ query # None
        /\ query[1].response.failed /\ Len(query[1].response.args) >= 1)
    => /\ result = Return(Some("PFS: " \o query[1].response.args[1]), <<>>, None)
       /\ result.error_msg \notin { Some("PFS could not find any routes"),
                                    Some("Pathfinding Service could not be used.") }

\* C3: whatever arguments the ServiceRequestFailed carries,
\* get_best_routes_pfs returns a result triple; no exception escapes it.
C3_NoExceptionEscapes ==
    (PfsCalled /\ query[1].response.failed) => pfs_result[1].exception = None

\* C4: when no channel to the payee is USABLE for the amount and pfs_config or
\* one_to_n_address is None, get_best_routes returns
\* ("Pathfinding Service could not be used.", [], None) and asks the service
\* nothing.
C4_NoPfsNoRoute ==
    (ReturnedFrom("get_best_routes")
        /\ ~UsableChannelTo(call.to_address[1], call.amount)
        /\ (call.pfs_config = None \/ call.one_to_n_address = None))
    => /\ result = Return(Some("Pathfinding Service could not be used."), <<>>, None)
       /\ query = None

\* channels to the payee exist, none usable, and only one_to_n_address is missing
C4_Witness ==
    /\ ReturnedFrom("get_best_routes")
    /\ \E i \in 1..Len(token_network) :
          token_network[i].partner_address = call.to_address[1]
    /\ ~UsableChannelTo(call.to_address[1], call.amount)
    /\ call.pfs_config # None
    /\ call.one_to_n_address = None
    /\ result.error_msg = Some("Pathfinding Service could not be used.")

\* C5: with a previous_address given, no route returned by get_best_routes_pfs
\* has it as second address, and a candidate with another second hop, whose
\* channel is opened, is still returned.
C5_NoBacktrack ==
    (PfsValidated /\ call.previous_address # None)
    => /\ \A r \in Range(pfs_result[1].routes) :
              r.route[2] # call.previous_address[1]
       /\ \A c \in Range(Candidates) :
              (NextHop(c) # call.previous_address[1] /\ HopOpened(NextHop(c)))
              => CandidateRouteState(c) \in Range(pfs_result[1].routes)

\* both next hops have an opened channel; the candidate through the previous
\* hop is dropped and the other one is returned, also by get_best_routes
C5_Witness ==
    /\ ReturnedFrom("get_best_routes")
    /\ PfsValidated
    /\ call.previous_address = Some("X")
    /\ Len(Candidates) = 2
    /\ NextHop(Candidates[1]) = "X"
    /\ NextHop(Candidates[2]) = "T"
    /\ HopOpened("X")
    /\ HopOpened("T")
    /\ result.routes = <<CandidateRouteState(Candidates[2])>>

\* C6: every route returned by get_best_routes_pfs has a next hop with an
\* opened channel; a candidate whose next hop has no channel, or a channel
\* that is not opened, is absent; the skip leaves no error message and the
\* candidates after it are still evaluated.
C6_OnlyOpenedChannels ==
    PfsValidated
    => /\ \A r \in Range(pfs_result[1].routes) : HopOpened(r.route[2])
       /\ \A c \in Range(Candidates) :
              ~HopOpened(NextHop(c))
              => CandidateRouteState(c) \notin Range(pfs_result[1].routes)
       /\ pfs_result[1].error_msg = None
       /\ \A c \in Range(Candidates) :
              (HopOpened(NextHop(c)) /\ Some(NextHop(c)) # call.previous_address)
              => CandidateRouteState(c) \in Range(pfs_result[1].routes)

\* the first candidate goes through a channel that is not opened and is
\* skipped; the second one, evaluated after it, is returned
C6_Witness ==
    /\ PfsValidated
    /\ Len(Candidates) = 2
    /\ get_channelstate_by_token_network_and_partner(
           token_network, NextHop(Candidates[1])) # None
    /\ ~HopOpened(NextHop(Candidates[1]))
    /\ HopOpened(NextHop(Candidates[2]))
    /\ pfs_result[1] = Return(None, <<CandidateRouteState(Candidates[2])>>,
                              query[1].response.feedback_token)

\* C7: the routes get_best_routes_pfs returns are, in order, a subsequence of
\* the candidates with each candidate's addresses and its own estimated fee;
\* the routes resolve_routes returns are, in order, a subsequence of the
\* metadata routes, each with fee 0.
C7_RoutesAndFeesKept ==
    /\ PfsValidated
       => IsSubsequence(pfs_result[1].routes,
              [k \in 1..Len(Candidates) |-> CandidateRouteState(Candidates[k])])
    /\ ReturnedFrom("resolve_routes")
       => IsSubsequence(result.routes,
              [k \in 1..Len(call.routes) |->
                  [route |-> call.routes[k].route, estimated_fee |-> 0]])

\* two different candidates with different fees are both returned, in the
\* order received
C7_Witness ==
    /\ PfsValidated
    /\ Len(Candidates) = 2
    /\ Candidates[1].estimated_fee = 5
    /\ Candidates[2].estimated_fee = 0
    /\ NextHop(Candidates[1]) # NextHop(Candidates[2])
    /\ Len(Candidates[1].path) = 3
    /\ pfs_result[1].routes = <<CandidateRouteState(Candidates[1]),
                                CandidateRouteState(Candidates[2])>>

\* C8: every route resolve_routes returns has a next hop with which this node
\* has a channel whose status is opened.
C8_ResolveOnlyOpened ==
    ReturnedFrom("resolve_routes")
    => \A r \in Range(result.routes) : HopOpened(r.route[2])

\* C9: a candidate path with fewer than two addresses is skipped by both
\* validators without a fault: resolve_routes returns no such route, and
\* get_best_routes_pfs returns whenever the query succeeded.
C9_ShortPathSkipped ==
    /\ ReturnedFrom("resolve_routes")
       => /\ result.exception = None
          /\ \A r \in Range(result.routes) : Len(r.route) >= 2
    /\ (PfsCalled /\ ~query[1].response.failed)
       => pfs_result[1].exception = None

\* C10: whenever get_best_routes returns, the error message is None exactly
\* when the route list is non-empty, and the feedback token is None when the
\* list is empty; when all candidates of a non-empty response are filtered
\* out, the result is ("PFS could not find any routes", [], None).
C10_ResultShape ==
    (ReturnedFrom("get_best_routes") /\ result.exception = None)
    => /\ (result.error_msg = None) <=> (Len(result.routes) > 0)
       /\ Len(result.routes) = 0 => result.feedback_token = None
       /\ (PfsValidated /\ Len(Candidates) > 0 /\ Len(pfs_result[1].routes) = 0)
          => result = Return(Some("PFS could not find any routes"), <<>>, None)

\* the service gave candidates and a token, every candidate was filtered out
C10_Witness ==
    /\ ReturnedFrom("get_best_routes")
    /\ PfsValidated
    /\ Len(Candidates) = 2
    /\ query[1].response.feedback_token # None
    /\ pfs_result[1] = Return(None, <<>>, query[1].response.feedback_token)
    /\ result = Return(Some("PFS could not find any routes"), <<>>, None)

====
